---- MODULE Spec2Model ----
(***************************************************************************)
(* A model of the DuanjuSpider plugin (src/main.py): the search aggregator *)
(* (search_drama / get_pan_link / check_url_accessibility), the per-user   *)
(* result cache driven by handle_text, the endpoint discovery pass         *)
(* (update_urls), the redirect resolver (resolve_short_url) and the        *)
(* startup (__init__, load_urls, async_init).                              *)
(*                                                                         *)
(* Strings the code takes apart (URLs) are sequences of tokens: a token is *)
(* a piece of text that none of the code's string operations splits        *)
(* ("http://", a host name, "/", "search.php").  Cache keys are TLA+       *)
(* strings built by concatenation, as the code builds them.                *)
(***************************************************************************)
EXTENDS Integers, Sequences, FiniteSets, TLC

VARIABLES
    \* ---- endpoint store (DuanjuSpider.__init__, update_urls)
    base_urls,          \* self.base_urls : sequence of URLs
    short_urls,         \* self.short_urls: sequence of short links
    \* ---- one call of search_drama
    last_used_domain,   \* self.last_used_domain
    sd_pc,              \* position of the call: idle, probe, search, detail, done, raised
    sd_i,               \* index (1-based) of base_url in the for loop
    sd_page,            \* anchors (soup.find_all('a', href=True)) of the current page
    sd_j,               \* index of the anchor whose detail page is being fetched
    sd_results,         \* the local list "results"
    sd_ret,             \* value returned to the caller
    netlog,             \* history: network requests and delays of the call, in order
    seen,               \* history: what each tried endpoint answered
    sd_got,             \* history: what the detail page of each anchor of sd_page answered
    \* ---- handle_text and the result cache
    search_cache,       \* self.search_cache : cache_key -> entry
    now,                \* asyncio.get_event_loop().time(), in seconds
    pending,            \* handle_text invocations suspended in "await self.search_drama"
        reply,              \* what the last handler step sent with bot.send_at_message (None: nothing)
    hist,               \* history: the last handler step and what it looked at
    latest,             \* history: identity -> last completed non-empty search
    nmsg,               \* history: number of inbound messages handled
    \* ---- update_urls
    up_pc,              \* position of update_urls: idle, resolving
    up_k,               \* index of short_url in the for loop
    new_urls,           \* the local list "new_urls"
    outcomes,           \* history: resolver results of the running / last pass
    prev_outcomes,      \* history: resolver results of the pass before
    prev_base,          \* history: base_urls as the pass before left it
    file_urls,          \* content of search_urls.json ("base_urls" member)
    writes,             \* history: save_urls calls of the running / last pass
    asked,              \* history: short links handed to resolve_short_url in the pass
    saved,              \* history: "base_urls" of the urls_data last handed to save_urls
    passes,             \* history: number of completed passes
    \* ---- one call of resolve_short_url
    rs_pc,              \* position of the call: idle, get, sleep, done
    rs_input,           \* the argument short_url
    rs_url,             \* the local short_url, which the GETs go to
    retry_count,        \* the local retry_count
    rs_ret,             \* value returned to the caller
    rs_log,             \* history: the GETs and sleeps of the call, in order
    \* ---- startup (__init__, load_urls, async_init)
    enable,             \* self.enable
    st_pc,              \* position of the startup: new, constructed, ready
    file_state,         \* search_urls.json: missing, content, corrupt, notdict
    fs_writable,        \* can search_urls.json be created
    cfg_enable,         \* "enable" of config.toml
    load_failure,       \* history: what went wrong with the file in __init__: none, create, read, shape
    \* ---- one call of send_comment
    sc_pc,              \* position of the call: idle, key, post, done
    key_domain,         \* history: the domain of the URL get_comment_key fetched
    post_domain,        \* history: the domain of the URL the comment is posted to
    sc_ret              \* "success" of the dict returned to the caller

searchVars == <<last_used_domain, sd_pc, sd_i, sd_page, sd_j, sd_results, sd_ret, netlog, seen, sd_got>>
cacheVars  == <<search_cache, now, pending, reply, hist, latest, nmsg>>
discVars   == <<up_pc, up_k, new_urls, outcomes, prev_outcomes, prev_base, file_urls, writes,
                 asked, saved, passes>>
storeVars  == <<base_urls, short_urls>>
resVars    == <<rs_pc, rs_input, rs_url, retry_count, rs_ret, rs_log>>
startVars  == <<enable, st_pc, file_state, fs_writable, cfg_enable, load_failure>>
commentVars == <<sc_pc, key_domain, post_domain, sc_ret>>
vars == <<storeVars, searchVars, cacheVars, discVars, resVars, startVars, commentVars>>

\* Python's None.  Values that may be None are records, so that they compare.
None == [none |-> TRUE]
\* a Python list, where the code may hold None instead
PyList(xs) == [list |-> xs]
\* a Python str, where the code may hold None instead
PyStr(s) == [str |-> s]
\* history fields: not observed yet
Unknown == "unknown"
\* the handler step sent no message
NoReply == [kind |-> "none"]

(***************************************************************************)
(* Bounds of the model.                                                    *)
(***************************************************************************)
MaxEndpoints == 3      \* base_urls has at most this many entries in the search runs
MaxAnchors   == 2      \* a result page has at most this many anchors
MaxHits      == 2      \* a search handled by handle_text returns at most this many results
MaxMsgs      == 3      \* inbound messages handled in one behaviour
StepsPerTtl  == 2      \* clock steps that make up cache_expire_time
MaxSteps     == 3      \* clock steps in one behaviour
MaxSeeds     == 2      \* short_urls has at most this many entries in the discovery runs
MaxPasses    == 2      \* discovery passes in one behaviour

(***************************************************************************)
(* URLs as token sequences.                                                *)
(***************************************************************************)
SearchPhp == "search.php"
Slash     == "/"

DefaultBaseUrls ==
    << <<"https://", "a80.35240.com", Slash, SearchPhp>>,
       <<"https://", "b.21410.com", Slash, SearchPhp>> >>

\* Endpoints a store may hold in the search runs: the two defaults and
\* discovered mirrors.
KnownEndpoints ==
    DefaultBaseUrls \o << <<"http://", "c.mirror.com", Slash, SearchPhp>>,
                          <<"https://", "d.mirror.com", Slash, SearchPhp>>,
                          <<"https://", "e.mirror.com", Slash, SearchPhp>> >>

(***************************************************************************)
(* search_drama, get_pan_link, check_url_accessibility.                    *)
(*                                                                         *)
(* The remote sites are the environment: every awaited request ends with   *)
(* one of the outcomes below, chosen when the request completes.           *)
(***************************************************************************)
ProbeOutcomes  == {"200", "other", "exception"}
SearchOutcomes == {"200", "other", "exception"}
\* detail page: 200 with a matching description, 200 without one, another
\* status, a network exception
DetailOutcomes == {"link", "nomatch", "other", "exception"}

\* An anchor with an href: is the href absolute (http/https), does it hold "id=".
Hrefs == { [abs |-> TRUE, id |-> TRUE], [abs |-> TRUE, id |-> FALSE],
           [abs |-> FALSE, id |-> TRUE] }

RECURSIVE SeqsUpTo(_, _)
SeqsUpTo(S, n) ==
    IF n = 0 THEN {<<>>}
    ELSE LET shorter == SeqsUpTo(S, n - 1)
         IN shorter \cup {Append(q, x) : q \in {r \in shorter : Len(r) = n - 1}, x \in S}

Pages == SeqsUpTo(Hrefs, MaxAnchors)

\* The title attribute of anchor pos of endpoint ep's page, and the link its
\* detail page holds: opaque texts, told apart by where they come from.
TitleOf(ep, pos) == [title |-> "title", ep |-> ep, pos |-> pos]
LinkOf(ep, pos)  == [url |-> "https://pan.quark.cn/s/", ep |-> ep, pos |-> pos]

\* urllib.parse.urlparse(base_url): f"{scheme}://{netloc}"
UrlDomain(url) ==
    IF Len(url) >= 2 /\ url[1] \in {"http://", "https://"}
    THEN SubSeq(url, 1, 2)
    ELSE <<"://">>

\* check_url_accessibility: status == 200; any exception is False
CheckUrlAccessibility(o) == o = "200"

\* the anchor filter of search_drama
Qualifies(a) == a.abs /\ a.id

\* the next anchor at or after position j whose detail page is fetched; 0: none
RECURSIVE NextAnchor(_, _)
NextAnchor(page, j) ==
    IF j > Len(page) THEN 0
    ELSE IF Qualifies(page[j]) THEN j
    ELSE NextAnchor(page, j + 1)

\* get_pan_link: the link, or None (non-200, no match, or a caught exception)
GetPanLink(o, ep, pos) == IF o = "link" THEN LinkOf(ep, pos) ELSE None

\* a bug: a result is kept whether or not its detail page gave a link
AppendResultAlways(results, title, pan_link) ==
    Append(results, [title |-> title, pan_link |-> pan_link])

\* "if pan_link: results.append({'title': title, 'pan_link': pan_link})"
AppendResult(results, title, pan_link) ==
    IF pan_link # None
    THEN Append(results, [title |-> title, pan_link |-> pan_link])
    ELSE results

\* a bug: the results of an endpoint do not end the loop
ReturnsNowNever(results) == FALSE

\* "if results: return results"
ReturnsNow(results) == results # <<>>

\* a bug: no except clause, the exception leaves search_drama
SearchExceptMissing == "raise"

\* "except Exception as e: logger.error(...)" around the search of one endpoint:
\* the for loop goes on
SearchExcept == "continue"

\* a bug: detail pages are fetched without the delay
RequestsNoDetailDelay(kind, url, pos) ==
    IF kind = "search"
    THEN << [kind |-> "sleep", url |-> url, pos |-> pos], [kind |-> kind, url |-> url, pos |-> pos] >>
    ELSE << [kind |-> kind, url |-> url, pos |-> pos] >>

\* what one awaited request adds to the history: the probe is sent at once,
\* the search GET and every get_pan_link GET come after
\* "await asyncio.sleep(random.uniform(0.5, 1.5))"
Requests(kind, url, pos) ==
    IF kind \in {"search", "detail"}
    THEN << [kind |-> "sleep", url |-> url, pos |-> pos], [kind |-> kind, url |-> url, pos |-> pos] >>
    ELSE << [kind |-> kind, url |-> url, pos |-> pos] >>

\* "return []" after the loop
NoResultReturn == PyList(<<>>)

\* the for loop moves to the next base_url, or ends
LoopNext ==
    /\ sd_page' = <<>>
    /\ sd_got' = <<>>
    /\ sd_j' = 0
    /\ sd_results' = <<>>
    /\ IF sd_i < Len(base_urls)
       THEN /\ sd_i' = sd_i + 1
            /\ sd_pc' = "probe"
            /\ sd_ret' = sd_ret
       ELSE /\ sd_i' = sd_i
            /\ sd_pc' = "done"
            /\ sd_ret' = NoResultReturn

\* the anchor loop of one page is over
PageDone(page, got, results) ==
    IF ReturnsNow(results)
    THEN /\ sd_pc' = "done"
         /\ sd_ret' = PyList(results)
         /\ sd_results' = results
         /\ sd_page' = page
         /\ sd_got' = got
         /\ UNCHANGED <<sd_i, sd_j>>
    ELSE LoopNext

SdCall ==
    /\ sd_pc = "idle"
    /\ last_used_domain' = None
    /\ netlog' = <<>>
    /\ seen' = <<>>
    /\ IF base_urls = <<>>
       THEN /\ sd_pc' = "done"
            /\ sd_ret' = NoResultReturn
            /\ sd_i' = 0
       ELSE /\ sd_pc' = "probe"
            /\ sd_ret' = sd_ret
            /\ sd_i' = 1
    /\ UNCHANGED <<sd_page, sd_got, sd_j, sd_results>>
    /\ UNCHANGED <<storeVars, cacheVars, discVars, resVars, startVars, commentVars>>

SdProbe ==
    /\ sd_pc = "probe"
    /\ \E o \in ProbeOutcomes :
        /\ netlog' = netlog \o Requests("probe", base_urls[sd_i], 0)
        /\ seen' = Append(seen, [probe |-> o, search |-> Unknown, fetched |-> 0, links |-> 0])
        /\ IF CheckUrlAccessibility(o)
           THEN /\ last_used_domain' = PyStr(UrlDomain(base_urls[sd_i]))
                /\ sd_pc' = "search"
                /\ UNCHANGED <<sd_i, sd_page, sd_got, sd_j, sd_results, sd_ret>>
           ELSE /\ LoopNext
                /\ UNCHANGED last_used_domain
    /\ UNCHANGED <<storeVars, cacheVars, discVars, resVars, startVars, commentVars>>

SdSearch ==
    /\ sd_pc = "search"
    /\ \E o \in SearchOutcomes, page \in Pages :
        /\ o # "200" => page = <<>>
        /\ netlog' = netlog \o Requests("search", base_urls[sd_i], 0)
        /\ seen' = [seen EXCEPT ![sd_i].search = o]
        /\ CASE o = "200" ->
                  LET j == NextAnchor(page, 1)
                      got == [n \in 1..Len(page) |-> Unknown]
                  IN IF j # 0
                     THEN /\ sd_pc' = "detail"
                          /\ sd_page' = page
                          /\ sd_got' = got
                          /\ sd_j' = j
                          /\ sd_results' = <<>>
                          /\ UNCHANGED <<sd_i, sd_ret>>
                     ELSE PageDone(page, got, <<>>)
             [] o = "other" -> LoopNext
             [] o = "exception" ->
                  IF SearchExcept = "continue"
                  THEN LoopNext
                  ELSE /\ sd_pc' = "raised"
                       /\ UNCHANGED <<sd_i, sd_page, sd_got, sd_j, sd_results, sd_ret>>
    /\ UNCHANGED last_used_domain
    /\ UNCHANGED <<storeVars, cacheVars, discVars, resVars, startVars, commentVars>>

SdDetail ==
    /\ sd_pc = "detail"
    /\ \E o \in DetailOutcomes :
        LET results == AppendResult(sd_results, TitleOf(sd_i, sd_j), GetPanLink(o, sd_i, sd_j))
            got == [sd_got EXCEPT ![sd_j] = o]
            j == NextAnchor(sd_page, sd_j + 1)
        IN /\ netlog' = netlog \o Requests("detail", base_urls[sd_i], sd_j)
           /\ seen' = [seen EXCEPT ![sd_i].fetched = @ + 1,
                                    ![sd_i].links = @ + (IF o = "link" THEN 1 ELSE 0)]
           /\ IF j # 0
              THEN /\ sd_j' = j
                   /\ sd_results' = results
                   /\ sd_got' = got
                   /\ UNCHANGED <<sd_pc, sd_i, sd_page, sd_ret>>
              ELSE PageDone(sd_page, got, results)
    /\ UNCHANGED last_used_domain
    /\ UNCHANGED <<storeVars, cacheVars, discVars, resVars, startVars, commentVars>>

(***************************************************************************)
(* handle_text and the result cache.                                       *)
(*                                                                         *)
(* A message text is a sequence of tokens: the command word, "#", " ",     *)
(* decimal digits, and words.  handle_text runs without suspension up to   *)
(* "await self.search_drama(...)" (or to its reply), and again from the    *)
(* return of search_drama to its reply: these are the two steps of a       *)
(* search, and other handlers may run between them.                        *)
(***************************************************************************)
cache_expire_time == 300                 \* self.cache_expire_time
max_results == 10                        \* config.get("max_results", 10)
Command == <<"duanju">>                  \* self.command ("短剧")
Space == " "

\* whitelist_groups of config.toml, and the requesters that write to them
whitelist_groups == {"1@chatroom", "2@chatroom"}
Requesters ==
    { [FromWxid |-> "1@chatroom", SenderWxid |-> "wxid_a", IsGroup |-> TRUE],
      [FromWxid |-> "2@chatroom", SenderWxid |-> "wxid_a", IsGroup |-> TRUE] }
\* senders whose messages handle_text drops: a private chat, a group that is
\* not whitelisted
Strangers ==
    { [FromWxid |-> "wxid_a", SenderWxid |-> "wxid_a", IsGroup |-> FALSE],
      [FromWxid |-> "3@chatroom", SenderWxid |-> "wxid_a", IsGroup |-> TRUE] }

Digits == <<"0", "1", "2", "3", "4", "5", "6", "7", "8", "9">>
\* str.isdigit() is also True of characters int() does not read, e.g. a
\* superscript two
SuperscriptTwo == "sup2"
Keywords == {"kwA", "kwB"}

\* message texts
DetailTexts ==
    {Command \o <<"#", Space, Digits[n + 1]>> : n \in 0..(MaxHits + 1)}
    \cup { Command \o <<"#", "1">>, Command \o <<"#", "1", "0">>,
           Command \o <<"#", Space, "1", "1">>,
           Command \o <<"#">>, Command \o <<"#", "x">>,
           Command \o <<"#", SuperscriptTwo>> }
SearchTexts ==
    {Command \o <<Space, k>> : k \in Keywords}
    \cup { Command \o <<"kwB">>, Command \o <<Space>>, Command }
OtherTexts == { <<"hello">> }

StartsWith(s, p) == Len(s) >= Len(p) /\ SubSeq(s, 1, Len(p)) = p

\* str.strip()
RECURSIVE LStrip(_)
LStrip(s) == IF s # <<>> /\ Head(s) = Space THEN LStrip(Tail(s)) ELSE s
RECURSIVE RStrip(_)
RStrip(s) ==
    IF s # <<>> /\ s[Len(s)] = Space THEN RStrip(SubSeq(s, 1, Len(s) - 1)) ELSE s
Strip(s) == RStrip(LStrip(s))

\* str.isdigit(): not empty, and every character a digit
IsDigit(s) ==
    /\ s # <<>>
    /\ \A i \in 1..Len(s) : s[i] = SuperscriptTwo \/ \E d \in 1..10 : Digits[d] = s[i]

\* int(index_str): a ValueError for what is no decimal number
IntReadable(s) == \A i \in 1..Len(s) : \E d \in 1..10 : Digits[d] = s[i]
RECURSIVE IntOf(_)
IntOf(s) ==
    IF s = <<>> THEN 0
    ELSE 10 * IntOf(SubSeq(s, 1, Len(s) - 1))
         + (CHOOSE d \in 0..9 : Digits[d + 1] = s[Len(s)])

\* a bug: the key is the sender alone
CacheKeySenderOnly(chat_id, sender) == sender

\* cache_key = f"{chat_id}_{sender}"
CacheKey(chat_id, sender) == chat_id \o "_" \o sender

\* a bug: nothing is ever removed
CleanExpiredNever(cache, t) == cache

\* _clean_expired_cache
CleanExpired(cache, t) ==
    [k \in {x \in DOMAIN cache : ~(t - cache[x].timestamp > cache_expire_time)} |-> cache[k]]

\* a bug: the new results are added to the entry that is there, which keeps
\* its timestamp
CachePutMerge(cache, key, results, keyword, t) ==
    [k \in DOMAIN cache \cup {key} |->
        IF k = key
        THEN IF key \in DOMAIN cache
             THEN [results |-> cache[key].results \o results, keyword |-> keyword,
                   timestamp |-> cache[key].timestamp]
             ELSE [results |-> results, keyword |-> keyword, timestamp |-> t]
        ELSE cache[k]]

\* a bug: an entry that is there is kept (first write wins)
CachePutFirst(cache, key, results, keyword, t) ==
    [k \in DOMAIN cache \cup {key} |->
        IF k = key /\ key \notin DOMAIN cache
        THEN [results |-> results, keyword |-> keyword, timestamp |-> t]
        ELSE cache[k]]

\* a bug: only the results that are shown are stored
CachePutShown(cache, key, results, keyword, t) ==
    [k \in DOMAIN cache \cup {key} |->
        IF k = key
        THEN [results |-> SubSeq(results, 1,
                                 IF Len(results) < max_results THEN Len(results) ELSE max_results),
              keyword |-> keyword, timestamp |-> t]
        ELSE cache[k]]

\* self.search_cache[cache_key] = {'results': ..., 'keyword': ..., 'timestamp': ...}
CachePut(cache, key, results, keyword, t) ==
    [k \in DOMAIN cache \cup {key} |->
        IF k = key
        THEN [results |-> results, keyword |-> keyword, timestamp |-> t]
        ELSE cache[k]]

\* the list search_drama builds from one page: one result per anchor whose
\* detail page gave a link, in document order (outs: what the detail page of
\* each anchor answered)
RECURSIVE PageResults(_, _, _)
PageResults(ep, outs, j) ==
    IF j = 0 THEN <<>>
    ELSE AppendResult(PageResults(ep, outs, j - 1), TitleOf(ep, j), GetPanLink(outs[j], ep, j))

\* What search_drama may return to handle_text.  What the sites hold is told
\* apart by the keyword: the page for "kwA" has MaxHits + 1 anchors, the page
\* for any other keyword max_results + 2; either no detail page gives a link
\* (or no endpoint answers), or all but the first do.
SearchReturns(drama_name) ==
    LET n == IF drama_name = <<"kwA">> THEN MaxHits + 1 ELSE max_results + 2
    IN {PyList(PageResults(drama_name, outs, n)) :
           outs \in {[a \in 1..n |-> "other"],
                     [a \in 1..n |-> IF a = 1 THEN "nomatch" ELSE "link"]}}

\* the length of one clock step, and the clock's end
TimeStep == cache_expire_time \div StepsPerTtl
MaxTime == MaxSteps * TimeStep

\* "if not self.enable / not message['IsGroup'] / chat_id not in whitelist"
Processed(who) == who.IsGroup /\ who.FromWxid \in whitelist_groups

Ident(who) == [chat |-> who.FromWxid, sender |-> who.SenderWxid]

\* time passes
Tick ==
    /\ now + TimeStep <= MaxTime
    /\ now' = now + TimeStep
    /\ UNCHANGED <<search_cache, pending, reply, hist, latest, nmsg>>
    /\ UNCHANGED <<storeVars, searchVars, discVars, resVars, startVars, commentVars>>

\* a message handle_text returns True for before it looks at the cache
HandleDropped ==
    /\ ~enable \/ \E who \in Strangers : ~Processed(who)
    /\ UNCHANGED <<cacheVars, storeVars, searchVars, discVars, resVars, startVars, commentVars>>

\* a message that starts with no command: the cache is swept, nothing else
HandleOther ==
    /\ nmsg < MaxMsgs
    /\ \E who \in Requesters, text \in OtherTexts :
        /\ enable
        /\ Processed(who)
        /\ ~StartsWith(text, Command)
        /\ search_cache' = CleanExpired(search_cache, now)
        /\ hist' = [op |-> "other", net |-> FALSE]
    /\ reply' = NoReply
    /\ nmsg' = nmsg + 1
    /\ UNCHANGED <<now, pending, latest>>
    /\ UNCHANGED <<storeVars, searchVars, discVars, resVars, startVars, commentVars>>

\* a bug: the entry is consumed by the lookup
DetailCacheDrop(cache, key) == [k \in DOMAIN cache \ {key} |-> cache[k]]

\* the detail branch reads the cache and stores nothing
DetailCache(cache, key) == cache

\* "selected_result = results[index-1]"
SelectResult(results, index) == results[index]

\* a bug: the range check comes first, read against an empty list
DetailReplyRangeFirst(cache, key, index, to) ==
    IF key \notin DOMAIN cache
    THEN [kind |-> "range", to |-> to, n |-> 0]
    ELSE IF index < 1 \/ index > Len(cache[key].results)
    THEN [kind |-> "range", to |-> to, n |-> Len(cache[key].results)]
    ELSE [kind |-> "detail", to |-> to, keyword |-> cache[key].keyword,
          title |-> SelectResult(cache[key].results, index).title,
          pan_link |-> SelectResult(cache[key].results, index).pan_link]

\* the reply of the detail branch to a numeric index
DetailReply(cache, key, index, to) ==
    IF key \notin DOMAIN cache
    THEN [kind |-> "nocache", to |-> to]
    ELSE IF index < 1 \/ index > Len(cache[key].results)
    THEN [kind |-> "range", to |-> to, n |-> Len(cache[key].results)]
    ELSE [kind |-> "detail", to |-> to, keyword |-> cache[key].keyword,
          title |-> SelectResult(cache[key].results, index).title,
          pan_link |-> SelectResult(cache[key].results, index).pan_link]

\* "<command># <index>"
HandleDetail ==
    /\ nmsg < MaxMsgs
    /\ \E who \in Requesters, text \in DetailTexts :
        LET key == CacheKey(who.FromWxid, who.SenderWxid)
            cleaned == CleanExpired(search_cache, now)
            index_str == Strip(SubSeq(text, Len(Command) + 2, Len(text)))
            id == Ident(who)
            \* history: the age of the requester's entry when the message arrives
            age == IF key \in DOMAIN search_cache
                   THEN now - search_cache[key].timestamp ELSE -1
        IN /\ enable
           /\ Processed(who)
           /\ StartsWith(text, Command \o <<"#">>)
           /\ IF ~IsDigit(index_str)
              THEN /\ reply' = [kind |-> "badindex", to |-> id]
                   /\ search_cache' = cleaned
                   /\ hist' = [op |-> "detail", id |-> id, numeric |-> FALSE, net |-> FALSE,
                               age |-> age]
              ELSE IF ~IntReadable(index_str)
              THEN /\ reply' = NoReply
                   /\ search_cache' = cleaned
                   /\ hist' = [op |-> "raised", id |-> id, net |-> FALSE]
              ELSE /\ reply' = DetailReply(cleaned, key, IntOf(index_str), id)
                   /\ search_cache' = DetailCache(cleaned, key)
                   /\ hist' = [op |-> "detail", id |-> id, numeric |-> TRUE,
                               index |-> IntOf(index_str), net |-> FALSE,
                               age |-> age]
    /\ nmsg' = nmsg + 1
    /\ UNCHANGED <<now, pending, latest>>
    /\ UNCHANGED <<storeVars, searchVars, discVars, resVars, startVars, commentVars>>

\* "<command> <keyword>", up to "await self.search_drama(drama_name)"
HandleSearch ==
    /\ nmsg < MaxMsgs
    /\ \E who \in Requesters, text \in SearchTexts :
        LET drama_name == Strip(SubSeq(text, Len(Command) + 1, Len(text)))
            id == Ident(who)
        IN /\ enable
           /\ Processed(who)
           /\ ~StartsWith(text, Command \o <<"#">>)
           /\ StartsWith(text, Command)
           /\ search_cache' = CleanExpired(search_cache, now)
           /\ IF drama_name = <<>>
              THEN /\ reply' = [kind |-> "nokeyword", to |-> id]
                   /\ pending' = pending
                   /\ hist' = [op |-> "search", id |-> id, net |-> FALSE]
              ELSE /\ reply' = NoReply
                   /\ pending' = Append(pending,
                          [id |-> id, key |-> CacheKey(who.FromWxid, who.SenderWxid),
                           drama_name |-> drama_name, overtaken |-> FALSE])
                   /\ hist' = [op |-> "search", id |-> id, net |-> TRUE]
    /\ nmsg' = nmsg + 1
    /\ UNCHANGED <<now, latest>>
    /\ UNCHANGED <<storeVars, searchVars, discVars, resVars, startVars, commentVars>>

\* a bug: every title is shown
ShownTitlesAll(results) ==
    [i \in 1..Len(results) |-> [no |-> i, title |-> results[i].title]]

\* the numbered titles of the search reply
ShownTitles(results) ==
    LET max_show == IF Len(results) < max_results THEN Len(results) ELSE max_results
    IN [i \in 1..max_show |-> [no |-> i, title |-> results[i].title]]

\* a bug: a search without results takes the requester's entry away
CacheAfterEmptyDrop(cache, key) == [k \in DOMAIN cache \ {key} |-> cache[k]]

\* the "not found" branch returns without touching search_cache
CacheAfterEmpty(cache, key) == cache

\* "if not results or len(results) == 0"
IsEmptyResult(results) == results = <<>>

\* search_drama returns to a suspended handle_text: cache and reply.
\* search_drama raises nothing and bot.send_at_message delivers, so the
\* except branch of the search is not entered.
SearchReturn ==
    \E n \in 1..Len(pending) : \E ret \in SearchReturns(pending[n].drama_name) :
        LET task == pending[n]
            results == ret.list
            \* history: a search is overtaken when one of the same requester
            \* that started after it stores its results first
            mark(m) == IF m < n /\ pending[m].id = task.id /\ results # <<>>
                       THEN [pending[m] EXCEPT !.overtaken = TRUE]
                       ELSE pending[m]
            rest == [m \in 1..Len(pending) |-> mark(m)]
        IN /\ pending' = SubSeq(rest, 1, n - 1) \o SubSeq(rest, n + 1, Len(rest))
           /\ IF IsEmptyResult(results)
              THEN /\ search_cache' = CacheAfterEmpty(search_cache, task.key)
                   /\ latest' = latest
                   /\ reply' = [kind |-> "notfound", to |-> task.id, keyword |-> task.drama_name]
              ELSE /\ search_cache' = CachePut(search_cache, task.key, results, task.drama_name, now)
                   /\ latest' = [latest EXCEPT ![task.id] =
                                    [results |-> results, keyword |-> task.drama_name]]
                   /\ reply' = [kind |-> "list", to |-> task.id, keyword |-> task.drama_name,
                                titles |-> ShownTitles(results),
                                more |-> Len(results) - Len(ShownTitles(results)),
                                hint |-> Command \o <<"#", Space>>]
           /\ hist' = [op |-> "searched", id |-> task.id, results |-> results,
                       keyword |-> task.drama_name, at |-> now, net |-> TRUE,
                       overtaken |-> task.overtaken,
                       over |-> task.key \in DOMAIN search_cache
                                /\ search_cache[task.key].keyword # task.drama_name]
    /\ UNCHANGED <<now, nmsg>>
    /\ UNCHANGED <<storeVars, searchVars, discVars, resVars, startVars, commentVars>>

(***************************************************************************)
(* update_urls: the discovery pass.                                        *)
(*                                                                         *)
(* resolve_short_url is awaited once per short link; what it returns is    *)
(* the environment's: None, the short link itself (with its scheme) after  *)
(* a 200, or the Location of a redirect.                                   *)
(***************************************************************************)
DefaultShortUrls == << <<"A80.CC">>, <<"A20.CC">>, <<"E50.CC">>, <<"47C.CC">> >>

\* Location headers the short links may answer with
Locations ==
    { <<"https://", "m1.example">>,
      <<"https://", "m1.example", Slash>>,
      <<"https://", "a80.35240.com", Slash, SearchPhp>> }

\* first tokens whose text begins with "http": the two schemes, and a host
\* name that happens to begin so
HttpInitial == {"http://", "https://", "httpx.cc"}

\* short_url.startswith('http')
StartsWithHttp(short_url) == short_url # <<>> /\ Head(short_url) \in HttpInitial

\* a bug: the scheme is put in front of every short link
WithSchemeAlways(short_url) == <<"http://">> \o short_url

\* "if not short_url.startswith('http'): short_url = f'http://{short_url}'"
WithScheme(short_url) ==
    IF StartsWithHttp(short_url)
    THEN short_url
    ELSE <<"http://">> \o short_url

\* what resolve_short_url may return for a short link
ResolverReturns(short_url) ==
    {None, PyStr(WithScheme(short_url))} \cup {PyStr(l) : l \in Locations}

\* str.rstrip('/')
RECURSIVE RStripSlash(_)
RStripSlash(url) ==
    IF url # <<>> /\ url[Len(url)] = Slash
    THEN RStripSlash(SubSeq(url, 1, Len(url) - 1))
    ELSE url

\* "if not resolved_url.endswith('search.php'): ..."
EnsureSearchPhp(url) ==
    IF url # <<>> /\ url[Len(url)] = SearchPhp THEN url
    ELSE IF url # <<>> /\ url[Len(url)] = Slash THEN url \o <<SearchPhp>>
    ELSE url \o <<Slash, SearchPhp>>

\* normalized_base_urls = [url.rstrip('/') for url in self.base_urls]
NormalizedSet(urls) == {RStripSlash(urls[i]) : i \in 1..Len(urls)}

\* a bug: a resolved URL is compared with the stored URLs only
IsNewUrlStoredOnly(resolved_url, stored, found) ==
    RStripSlash(resolved_url) \notin NormalizedSet(stored)

\* a bug: every resolved URL counts as new
IsNewUrlAlways(resolved_url, stored, found) == TRUE

\* "normalized_url not in normalized_base_urls and
\*  normalized_url not in [u.rstrip('/') for u in new_urls]"
IsNewUrl(resolved_url, stored, found) ==
    /\ RStripSlash(resolved_url) \notin NormalizedSet(stored)
    /\ RStripSlash(resolved_url) \notin NormalizedSet(found)

\* a bug: the loop over the short links ends at the first one that fails
NextSeedBreak(k, r, n) == IF r = None THEN n + 1 ELSE k + 1

\* "for short_url in self.short_urls": the turn after turn k, whatever the
\* resolver returned r for it (n: number of short links)
NextSeed(k, r, n) == k + 1

\* a bug: the new URLs are put in front of the stored ones
StoreAfterPrepend(stored, found) == found \o stored

\* "for url in new_urls: self.base_urls.append(url)"
StoreAfter(stored, found) == stored \o found

\* a bug: the file is saved at the end of every pass
SaveWhenAlways(found) == TRUE

\* "if new_urls:" guards the one save_urls call of the pass
SaveWhen(found) == found # <<>>

\* update_urls is called
UpStart ==
    /\ up_pc = "idle"
    /\ passes < MaxPasses
    /\ up_pc' = "resolving"
    /\ up_k' = 1
    /\ new_urls' = <<>>
    /\ prev_outcomes' = outcomes
    /\ outcomes' = <<>>
    /\ prev_base' = base_urls
    /\ writes' = 0
    /\ asked' = <<>>
    /\ UNCHANGED <<file_urls, saved, passes>>
    /\ UNCHANGED <<storeVars, searchVars, cacheVars, resVars, startVars, commentVars>>

\* one turn of "for short_url in self.short_urls"
UpResolve ==
    /\ up_pc = "resolving"
    /\ up_k <= Len(short_urls)
    /\ \E r \in ResolverReturns(short_urls[up_k]) :
        /\ outcomes' = Append(outcomes, r)
        /\ up_k' = NextSeed(up_k, r, Len(short_urls))
        /\ IF r # None /\ r.str # <<>>
           THEN LET resolved_url == EnsureSearchPhp(r.str)
                IN new_urls' = IF IsNewUrl(resolved_url, base_urls, new_urls)
                               THEN Append(new_urls, resolved_url)
                               ELSE new_urls
           ELSE new_urls' = new_urls
    /\ asked' = Append(asked, short_urls[up_k])
    /\ UNCHANGED <<up_pc, prev_outcomes, prev_base, file_urls, writes, saved, passes>>
    /\ UNCHANGED <<storeVars, searchVars, cacheVars, resVars, startVars, commentVars>>

\* after the loop: "if new_urls: ... self.save_urls(urls_data)"; the write of
\* the file succeeds or fails (save_urls logs the failure)
UpFinish ==
    /\ up_pc = "resolving"
    /\ up_k > Len(short_urls)
    /\ IF SaveWhen(new_urls)
       THEN /\ base_urls' = StoreAfter(base_urls, new_urls)
            /\ writes' = writes + 1
            /\ saved' = PyList(base_urls')
            /\ \E ok \in BOOLEAN :
                  /\ (file_state = "missing" /\ ~fs_writable) => ~ok
                  /\ file_urls' = IF ok THEN base_urls' ELSE file_urls
                  /\ file_state' = IF ok THEN "content" ELSE file_state
       ELSE UNCHANGED <<base_urls, writes, saved, file_urls, file_state>>
    /\ up_pc' = "idle"
    /\ passes' = passes + 1
    /\ UNCHANGED <<short_urls, up_k, new_urls, outcomes, prev_outcomes, prev_base, asked>>
    /\ UNCHANGED <<enable, st_pc, fs_writable, cfg_enable, load_failure>>
    /\ UNCHANGED <<searchVars, cacheVars, resVars, commentVars>>

(***************************************************************************)
(* resolve_short_url: one call.                                            *)
(*                                                                         *)
(* The short-link host is the environment: every GET ends with a response  *)
(* (a status and, possibly, a Location header) or with an exception.       *)
(***************************************************************************)
max_retries == 3
RetrySleep == 2

\* arguments of the call: a bare host name, URLs with a scheme, and a bare
\* host name that begins with "http"
ShortLinkInputs ==
    { <<"A80.CC">>, <<"http://", "A80.CC">>, <<"https://", "A20.CC">>, <<"httpx.cc">> }

\* statuses the host may answer with
Statuses == {200, 302, 304, 500}

\* response.headers.get('Location'): absent, empty, or a URL
LocationHeaders == {None, PyStr(<<>>)} \cup {PyStr(l) : l \in Locations}

Responses ==
    {[exc |-> FALSE, status |-> st, location |-> l] : st \in Statuses, l \in LocationHeaders}
    \cup {[exc |-> TRUE, status |-> 0, location |-> None]}

\* a bug: no status is taken for a redirect
RedirectStatusesNone == {}

\* "if status_code in (301, 302, 303, 307, 308)"
RedirectStatuses == {301, 302, 303, 307, 308}

\* "if redirect_url:"
Truthy(v) == v # None /\ v.str # <<>>

\* a bug: one attempt more
RetryAgainInclusive(n) == n <= max_retries

\* "while retry_count < max_retries"
RetryAgain(n) == n < max_retries

\* the call starts: the scheme is put in front, retry_count = 0
RsCall ==
    /\ rs_pc = "idle"
    /\ rs_url' = WithScheme(rs_input)
    /\ retry_count' = 0
    /\ rs_pc' = "get"
    /\ UNCHANGED <<rs_input, rs_ret, rs_log>>
    /\ UNCHANGED <<storeVars, searchVars, cacheVars, discVars, startVars, commentVars>>

\* one turn of the while loop: the GET and what follows from its answer
RsGet ==
    /\ rs_pc = "get"
    /\ RetryAgain(retry_count)
    /\ \E resp \in Responses :
        /\ rs_log' = Append(rs_log, [ev |-> "get", url |-> rs_url, resp |-> resp, secs |-> 0])
        /\ IF ~resp.exc /\ resp.status \in RedirectStatuses /\ Truthy(resp.location)
           THEN /\ rs_ret' = resp.location
                /\ rs_pc' = "done"
                /\ UNCHANGED retry_count
           ELSE IF ~resp.exc /\ resp.status \notin RedirectStatuses /\ resp.status = 200
           THEN /\ rs_ret' = PyStr(rs_url)
                /\ rs_pc' = "done"
                /\ UNCHANGED retry_count
           ELSE /\ retry_count' = retry_count + 1
                /\ rs_pc' = IF retry_count + 1 < max_retries THEN "sleep" ELSE "get"
                /\ UNCHANGED rs_ret
    /\ UNCHANGED <<rs_input, rs_url>>
    /\ UNCHANGED <<storeVars, searchVars, cacheVars, discVars, startVars, commentVars>>

\* "await asyncio.sleep(2)" before the next attempt
RsSleep ==
    /\ rs_pc = "sleep"
    /\ rs_log' = Append(rs_log, [ev |-> "sleep", url |-> <<>>,
                                 resp |-> [exc |-> FALSE, status |-> 0, location |-> None],
                                 secs |-> RetrySleep])
    /\ rs_pc' = "get"
    /\ UNCHANGED <<rs_input, rs_url, retry_count, rs_ret>>
    /\ UNCHANGED <<storeVars, searchVars, cacheVars, discVars, startVars, commentVars>>

\* the while loop is over: "return None"
RsGiveUp ==
    /\ rs_pc = "get"
    /\ ~RetryAgain(retry_count)
    /\ rs_ret' = None
    /\ rs_pc' = "done"
    /\ UNCHANGED <<rs_input, rs_url, retry_count, rs_log>>
    /\ UNCHANGED <<storeVars, searchVars, cacheVars, discVars, startVars, commentVars>>

(***************************************************************************)
(* Startup: __init__ (with load_urls) and async_init.                      *)
(*                                                                         *)
(* config.toml is read; search_urls.json is missing, holds a URL object,   *)
(* cannot be read as JSON, or holds JSON that is not an object.            *)
(***************************************************************************)
\* config.get("short_urls", [...]) and the literal of the except branch
ConfigShortUrls == SubSeq(DefaultShortUrls, 1, IF MaxSeeds <= 4 THEN MaxSeeds ELSE 4)

\* URL lists a well-formed file may hold: the defaults, or the defaults and
\* a mirror found by an earlier run
FileContents ==
    { DefaultBaseUrls,
      DefaultBaseUrls \o << <<"https://", "m1.example", Slash, SearchPhp>> >> }

\* load_urls as called from __init__: what it returns, or that it raises
LoadUrls(state, writable, content) ==
    CASE state = "missing" /\ writable -> [raised |-> FALSE, base_urls |-> DefaultBaseUrls, failure |-> "none"]
      [] state = "missing" /\ ~writable -> [raised |-> TRUE, base_urls |-> <<>>, failure |-> "create"]
      [] state = "content" -> [raised |-> FALSE, base_urls |-> content, failure |-> "none"]
      [] state = "corrupt" -> [raised |-> FALSE, base_urls |-> DefaultBaseUrls, failure |-> "read"]
      [] state = "notdict" -> [raised |-> TRUE, base_urls |-> <<>>, failure |-> "shape"]

\* __init__: the try block, and its except branch when load_urls (or
\* urls_data.get) raises
StConstruct ==
    /\ st_pc = "new"
    /\ LET loaded == LoadUrls(file_state, fs_writable, file_urls)
       IN /\ load_failure' = loaded.failure
          /\ IF loaded.raised
             THEN /\ enable' = FALSE
                  /\ base_urls' = DefaultBaseUrls
                  /\ short_urls' = ConfigShortUrls
                  /\ UNCHANGED <<file_state, file_urls>>
             ELSE /\ enable' = cfg_enable
                  /\ base_urls' = loaded.base_urls
                  /\ short_urls' = ConfigShortUrls
                  /\ IF file_state = "missing"
                     THEN file_state' = "content" /\ file_urls' = DefaultBaseUrls
                     ELSE UNCHANGED <<file_state, file_urls>>
    /\ st_pc' = "constructed"
    /\ prev_base' = base_urls'
    /\ UNCHANGED <<fs_writable, cfg_enable>>
    /\ UNCHANGED <<up_pc, up_k, new_urls, outcomes, prev_outcomes, writes, asked, saved, passes>>
    /\ UNCHANGED <<searchVars, cacheVars, resVars, commentVars>>

\* async_init: "await self.update_urls()"
StAsyncInit ==
    /\ st_pc = "constructed"
    /\ passes = 0
    /\ UpStart

\* async_init returns
StReady ==
    /\ st_pc = "constructed"
    /\ up_pc = "idle"
    /\ passes = 1
    /\ st_pc' = "ready"
    /\ UNCHANGED <<enable, file_state, fs_writable, cfg_enable, load_failure>>
    /\ UNCHANGED <<storeVars, searchVars, cacheVars, discVars, resVars, commentVars>>

(***************************************************************************)
(* send_comment and get_comment_key: one call, made by the add-drama       *)
(* branch of handle_text.  The call is suspended in the GET of the comment *)
(* page and in the POST; search_drama calls of other requests run in       *)
(* between and write self.last_used_domain.                                *)
(***************************************************************************)
\* "https://a80.35240.com", the domain used when none is stored
DefaultDomain == <<"https://", "a80.35240.com">>

\* "not hasattr(self, 'last_used_domain') or not self.last_used_domain"
NoDomain(d) == d = None \/ d.str = <<>>

\* get_comment_key: a key was found in the page, or None was returned
KeyOutcomes == {"key", "nokey"}
\* the POST: a 200 answer, anything else
PostOutcomes == {"ok", "fail"}

\* send_comment up to the GET in get_comment_key: both functions put the
\* default in last_used_domain if it holds none, then the key URL is built
ScCall ==
    /\ sc_pc = "idle"
    /\ last_used_domain' = IF NoDomain(last_used_domain) THEN PyStr(DefaultDomain)
                           ELSE last_used_domain
    /\ key_domain' = last_used_domain'
    /\ sc_pc' = "key"
    /\ UNCHANGED <<post_domain, sc_ret>>
    /\ UNCHANGED <<sd_pc, sd_i, sd_page, sd_j, sd_results, sd_ret, netlog, seen, sd_got>>
    /\ UNCHANGED <<storeVars, cacheVars, discVars, resVars, startVars>>

\* get_comment_key returns; with a key the POST URL is built from
\* self.last_used_domain as it is now
ScKey ==
    /\ sc_pc = "key"
    /\ \E o \in KeyOutcomes :
        IF o = "nokey"
        THEN /\ sc_ret' = PyStr("failure")
             /\ sc_pc' = "done"
             /\ UNCHANGED post_domain
        ELSE /\ post_domain' = last_used_domain
             /\ sc_pc' = "post"
             /\ UNCHANGED sc_ret
    /\ UNCHANGED key_domain
    /\ UNCHANGED <<storeVars, searchVars, cacheVars, discVars, resVars, startVars>>

\* the POST is answered
ScPost ==
    /\ sc_pc = "post"
    /\ \E o \in PostOutcomes :
        sc_ret' = PyStr(IF o = "ok" THEN "success" ELSE "failure")
    /\ sc_pc' = "done"
    /\ UNCHANGED <<key_domain, post_domain>>
    /\ UNCHANGED <<storeVars, searchVars, cacheVars, discVars, resVars, startVars>>

(***************************************************************************)
(* Initial values of the parts, and the specifications.                    *)
(***************************************************************************)
InitSearchVars ==
    /\ last_used_domain = None     \* no attribute yet: hasattr(...) is False
    /\ sd_pc = "idle"
    /\ sd_i = 0
    /\ sd_page = <<>>
    /\ sd_got = <<>>
    /\ sd_j = 0
    /\ sd_results = <<>>
    /\ sd_ret = None
    /\ netlog = <<>>
    /\ seen = <<>>

InitCacheVars ==
    /\ search_cache = [k \in {} |-> None]
    /\ now = 0
    /\ pending = <<>>
    /\ reply = NoReply
    /\ hist = [op |-> "none"]
    /\ latest = [id \in {Ident(who) : who \in Requesters} |-> None]
    /\ nmsg = 0

InitDiscVars ==
    /\ up_pc = "idle"
    /\ up_k = 0
    /\ new_urls = <<>>
    /\ outcomes = <<>>
    /\ prev_outcomes = <<>>
    /\ prev_base = <<>>
    /\ file_urls = <<>>
    /\ writes = 0
    /\ asked = <<>>
    /\ saved = None
    /\ passes = 0

InitResVars ==
    /\ rs_pc = "idle"
    /\ rs_input = <<>>
    /\ rs_url = <<>>
    /\ retry_count = 0
    /\ rs_ret = None
    /\ rs_log = <<>>

\* the plugin is constructed and initialised, enabled by its configuration
InitStartVars ==
    /\ enable = TRUE
    /\ st_pc = "ready"
    /\ file_state = "content"
    /\ fs_writable = TRUE
    /\ cfg_enable = TRUE
    /\ load_failure = "none"

InitCommentVars ==
    /\ sc_pc = "idle"
    /\ key_domain = None
    /\ post_domain = None
    /\ sc_ret = None

\* search_drama over a store of 0..MaxEndpoints endpoints
InitSearch ==
    /\ \E n \in 0..MaxEndpoints :
          /\ n <= Len(KnownEndpoints)
          /\ base_urls = SubSeq(KnownEndpoints, 1, n)
    /\ short_urls = <<>>
    /\ InitSearchVars
    /\ InitCacheVars
    /\ InitResVars
    /\ InitCommentVars
    /\ InitStartVars
    /\ InitDiscVars

NextSearch == SdCall \/ SdProbe \/ SdSearch \/ SdDetail

SpecSearch == InitSearch /\ [][NextSearch]_vars

\* handle_text over the default store
InitCache ==
    /\ base_urls = DefaultBaseUrls
    /\ short_urls = <<>>
    /\ InitSearchVars
    /\ InitCacheVars
    /\ InitResVars
    /\ InitCommentVars
    /\ InitStartVars
    /\ InitDiscVars

NextCache ==
    Tick \/ HandleDropped \/ HandleOther \/ HandleDetail \/ HandleSearch \/ SearchReturn

SpecCache == InitCache /\ [][NextCache]_vars

\* update_urls over a loaded store: the default endpoints, as configured or
\* with a trailing slash on the first, and the first MaxSeeds short links
InitDisc ==
    /\ base_urls \in {DefaultBaseUrls,
                      <<DefaultBaseUrls[1] \o <<Slash>>, DefaultBaseUrls[2]>>}
    /\ \E n \in 0..MaxSeeds :
          /\ n <= Len(DefaultShortUrls)
          /\ short_urls = SubSeq(DefaultShortUrls, 1, n)
    /\ InitSearchVars
    /\ InitCacheVars
    /\ InitResVars
    /\ InitCommentVars
    /\ InitStartVars
    /\ up_pc = "idle"
    /\ up_k = 0
    /\ new_urls = <<>>
    /\ outcomes = <<>>
    /\ prev_outcomes = <<>>
    /\ prev_base = base_urls
    /\ file_urls = base_urls
    /\ writes = 0
    /\ asked = <<>>
    /\ saved = None
    /\ passes = 0

NextDisc == UpStart \/ UpResolve \/ UpFinish

SpecDisc == InitDisc /\ [][NextDisc]_vars

\* one call of resolve_short_url; every step of the call is taken in the end
\* (the event loop runs the coroutine, requests time out after 10 s)
InitResolve ==
    /\ base_urls = DefaultBaseUrls
    /\ short_urls = <<>>
    /\ InitSearchVars
    /\ InitCacheVars
    /\ InitDiscVars
    /\ InitStartVars
    /\ InitCommentVars
    /\ rs_pc = "idle"
    /\ rs_input \in ShortLinkInputs
    /\ rs_url = <<>>
    /\ retry_count = 0
    /\ rs_ret = None
    /\ rs_log = <<>>

NextResolve == RsCall \/ RsGet \/ RsSleep \/ RsGiveUp

SpecResolve == InitResolve /\ [][NextResolve]_vars /\ WF_vars(NextResolve)

\* a start of the plugin: the object is not constructed yet
InitStart ==
    /\ base_urls = <<>>
    /\ short_urls = <<>>
    /\ InitSearchVars
    /\ InitCacheVars
    /\ InitResVars
    /\ InitCommentVars
    /\ up_pc = "idle"
    /\ up_k = 0
    /\ new_urls = <<>>
    /\ outcomes = <<>>
    /\ prev_outcomes = <<>>
    /\ prev_base = <<>>
    /\ writes = 0
    /\ asked = <<>>
    /\ saved = None
    /\ passes = 0
    /\ enable = FALSE
    /\ st_pc = "new"
    /\ file_state \in {"missing", "content", "corrupt", "notdict"}
    /\ file_urls \in (IF file_state = "content" THEN FileContents ELSE {<<>>})
    /\ fs_writable \in BOOLEAN
    /\ cfg_enable \in BOOLEAN
    /\ load_failure = "none"

NextStart == StConstruct \/ StAsyncInit \/ UpResolve \/ UpFinish \/ StReady

SpecStart == InitStart /\ [][NextStart]_vars

\* one send_comment call and one search_drama call of another request, over
\* the default store
InitComment ==
    /\ base_urls = DefaultBaseUrls
    /\ short_urls = <<>>
    /\ InitSearchVars
    /\ InitCacheVars
    /\ InitDiscVars
    /\ InitResVars
    /\ InitStartVars
    /\ InitCommentVars

NextComment == ScCall \/ ScKey \/ ScPost \/ SdCall \/ SdProbe \/ SdSearch \/ SdDetail

SpecComment == InitComment /\ [][NextComment]_vars

(***************************************************************************)
(* Claims about search_drama (checked under SpecSearch).                   *)
(***************************************************************************)
\* history: the endpoint was live, answered the search with 200 and at least
\* one of its detail pages gave a link
Good(e) == e.probe = "200" /\ e.search = "200" /\ e.links > 0

\* the results one page yields: one per anchor whose detail page gave a link,
\* in document order
RECURSIVE ResultsFrom(_, _, _)
ResultsFrom(ep, got, j) ==
    IF j > Len(got) THEN <<>>
    ELSE (IF got[j] = "link"
          THEN << [title |-> TitleOf(ep, j), pan_link |-> LinkOf(ep, j)] >>
          ELSE <<>>) \o ResultsFrom(ep, got, j + 1)

ProbedUrls ==
    LET probes == SelectSeq(netlog, LAMBDA r : r.kind = "probe")
    IN [n \in 1..Len(probes) |-> probes[n].url]

\* position of a URL in base_urls (the stored URLs are distinct)
IndexOf(url) == CHOOSE i \in 1..Len(base_urls) : base_urls[i] = url

\* C1: search_drama probes base_urls in stored order, returns the results of
\* the first endpoint that is live, answers 200 and yields a result, exactly
\* that endpoint's results (nothing merged), and touches no endpoint stored
\* after it.
C1_FirstGoodEndpoint ==
    LET k == Len(seen)
    IN /\ ProbedUrls = SubSeq(base_urls, 1, k)
       /\ \A m, n \in 1..Len(netlog) :
             m < n => IndexOf(netlog[m].url) <= IndexOf(netlog[n].url)
       /\ \A i \in 1..(k - 1) : ~Good(seen[i])
       /\ (sd_pc = "done" /\ k > 0 /\ Good(seen[k])) =>
             /\ sd_ret = PyList(ResultsFrom(k, sd_got, 1))
             /\ \A n \in 1..Len(netlog) : IndexOf(netlog[n].url) <= k

\* C1 witness: dead first endpoint, second endpoint yields two results, the
\* third endpoint is never tried.
C1_Witness ==
    /\ sd_pc = "done"
    /\ Len(base_urls) = 3
    /\ Len(seen) = 2
    /\ seen[1].probe = "other"
    /\ Good(seen[2])
    /\ Len(sd_ret.list) = 2

\* C2: whatever the endpoints answer, search_drama never raises; every failing
\* endpoint is followed by the next stored one, and when none yields a result
\* the call returns the empty list, not None.
C2_NeverRaises ==
    /\ sd_pc # "raised"
    /\ sd_pc = "probe" => Len(seen) = sd_i - 1
    /\ sd_pc \in {"search", "detail"} => Len(seen) = sd_i
    /\ sd_pc = "done" =>
          /\ sd_ret # None
          /\ (\A i \in 1..Len(seen) : ~Good(seen[i])) =>
                /\ Len(seen) = Len(base_urls)
                /\ sd_ret = PyList(<<>>)

\* C2 witness: probe exception, search exception, then a page whose only
\* detail fetch fails: all three endpoints tried, empty list returned.
C2_Witness ==
    /\ sd_pc = "done"
    /\ Len(seen) = 3
    /\ seen[1].probe = "exception"
    /\ seen[2].search = "exception"
    /\ seen[3].search = "200" /\ seen[3].fetched > 0 /\ seen[3].links = 0
    /\ sd_ret = PyList(<<>>)

(***************************************************************************)
(* Claims about handle_text and the result cache (checked under SpecCache).*)
(***************************************************************************)
KeyOf(id) == CacheKey(id.chat, id.sender)

\* C3: a detail-by-index request never answers from an entry whose age is
\* cache_expire_time or more when the request arrives (an age of exactly
\* cache_expire_time counts as expired).
C3_NoLookupAtTtl ==
    (hist.op = "detail" /\ reply.kind = "detail") => hist.age < cache_expire_time

\* C4: a numeric detail request is answered "no cache" when the requester has
\* no entry, else "out of range" when index < 1 or index > n, else with title
\* and pan_link of the index-th result (counted from 1) and the cached keyword.
C4_DetailReply ==
    (hist.op = "detail" /\ hist.numeric) =>
        LET key == KeyOf(hist.id)
        IN IF key \notin DOMAIN search_cache
           THEN reply = [kind |-> "nocache", to |-> hist.id]
           ELSE LET e == search_cache[key]
                IN IF hist.index < 1 \/ hist.index > Len(e.results)
                   THEN reply = [kind |-> "range", to |-> hist.id, n |-> Len(e.results)]
                   ELSE reply = [kind |-> "detail", to |-> hist.id, keyword |-> e.keyword,
                                 title |-> e.results[hist.index].title,
                                 pan_link |-> e.results[hist.index].pan_link]

\* C4 witness: the second of two cached results is asked for and sent.
C4_Witness ==
    /\ hist.op = "detail" /\ hist.numeric /\ hist.index = 2
    /\ reply.kind = "detail"
    /\ reply.title = search_cache[KeyOf(hist.id)].results[2].title

\* C5: a detail request starts no network request and stores nothing: every
\* entry that is left is as it was, and an entry that is gone had expired.
C5_DetailReadsOnly ==
    [][ (nmsg' # nmsg /\ hist'.op = "detail") =>
            /\ hist'.net = FALSE
            /\ pending' = pending
            /\ netlog' = netlog
            /\ \A k \in DOMAIN search_cache' :
                  k \in DOMAIN search_cache /\ search_cache'[k] = search_cache[k]
            /\ \A k \in DOMAIN search_cache \ DOMAIN search_cache' :
                  now - search_cache[k].timestamp >= cache_expire_time ]_vars

\* C5 witness: a detail request answered from the requester's entry, while
\* the expired entry of the other requester was swept.
C5_Witness ==
    /\ hist.op = "detail" /\ reply.kind = "detail"
    /\ DOMAIN search_cache = {KeyOf(hist.id)}
    /\ \A id \in DOMAIN latest : latest[id] # None

\* C6: a search that returns results replaces the requester's entry as a
\* whole, with the time of its completion; a detail request that follows
\* is answered from the new results.
C6_PutReplaces ==
    /\ [](hist.op = "searched" /\ hist.results # <<>> =>
            /\ KeyOf(hist.id) \in DOMAIN search_cache
            /\ search_cache[KeyOf(hist.id)] =
                  [results |-> hist.results, keyword |-> hist.keyword, timestamp |-> hist.at])
    /\ [][ (hist.op = "searched" /\ hist.results # <<>>
            /\ nmsg' # nmsg /\ hist'.op = "detail" /\ hist'.id = hist.id /\ hist'.numeric
            /\ hist'.index \in 1..Len(hist.results)
            /\ now - hist.at < cache_expire_time) =>
               reply' = [kind |-> "detail", to |-> hist.id, keyword |-> hist.keyword,
                         title |-> hist.results[hist'.index].title,
                         pan_link |-> hist.results[hist'.index].pan_link] ]_vars

\* C6 witness: a search completes, after the clock has moved, over an entry
\* of the same requester for another keyword.
C6_Witness ==
    /\ hist.op = "searched" /\ hist.results # <<>> /\ hist.over
    /\ hist.at > 0
    /\ search_cache[KeyOf(hist.id)].timestamp = hist.at

\* C7: a detail request is answered from the requester's own last completed
\* search; a search of one requester leaves the unexpired entry of another
\* as it is and creates none for it.
C7_KeyedIsolation ==
    /\ [](reply.kind = "detail" =>
            LET own == latest[reply.to]
            IN /\ own # None
               /\ reply.keyword = own.keyword
               /\ \E i \in 1..Len(own.results) :
                     /\ own.results[i].title = reply.title
                     /\ own.results[i].pan_link = reply.pan_link)
    /\ [][ (hist'.op \in {"search", "searched"} /\ (nmsg' # nmsg \/ pending' # pending)) =>
            \A who \in Requesters :
                LET k == CacheKey(who.FromWxid, who.SenderWxid)
                IN Ident(who) # hist'.id =>
                      /\ k \notin DOMAIN search_cache => k \notin DOMAIN search_cache'
                      /\ (k \in DOMAIN search_cache
                          /\ now - search_cache[k].timestamp < cache_expire_time) =>
                             /\ k \in DOMAIN search_cache'
                             /\ search_cache'[k] = search_cache[k] ]_vars

\* C7 witness: both requesters hold entries, for different keywords, and one
\* of them is sent a result.
C7_Witness ==
    /\ reply.kind = "detail"
    /\ Cardinality(DOMAIN search_cache) = 2
    /\ \E k \in DOMAIN search_cache : search_cache[k].keyword # reply.keyword

\* C8: with overlapping searches of one requester the entry is, as a whole,
\* that of the search that completed last, and a detail request sees results
\* and keyword of one and the same search.
C8_LastWriteWins ==
    /\ \A who \in Requesters :
          LET k == CacheKey(who.FromWxid, who.SenderWxid)
          IN k \in DOMAIN search_cache =>
                /\ latest[Ident(who)] # None
                /\ search_cache[k].results = latest[Ident(who)].results
                /\ search_cache[k].keyword = latest[Ident(who)].keyword
    /\ reply.kind = "detail" =>
          /\ reply.title.ep = reply.keyword
          /\ reply.pan_link.ep = reply.keyword

\* C8 witness: the search that started first completes last, and its results
\* and keyword are the entry.
C8_Witness ==
    /\ hist.op = "searched" /\ hist.results # <<>> /\ hist.overtaken /\ hist.over
    /\ search_cache[KeyOf(hist.id)].keyword = hist.keyword
    /\ search_cache[KeyOf(hist.id)].results = hist.results

C10_Idempotent ==
    (up_pc = "idle" /\ passes >= 2 /\ outcomes = prev_outcomes) =>
        /\ base_urls = prev_base
        /\ writes = 0

\* C10 witness: the first pass added an endpoint, the second resolved the
\* same and added nothing.
C10_Witness ==
    /\ up_pc = "idle" /\ passes = 2
    /\ outcomes = prev_outcomes
    /\ \E i \in 1..Len(outcomes) : outcomes[i] # None
    /\ Len(base_urls) > Len(DefaultBaseUrls)
    /\ writes = 0

\* C11: a discovery pass only appends: base_urls as it was before the pass is
\* a prefix of base_urls after it, and short_urls never changes.
C11_OnlyAppends ==
    /\ [](Len(prev_base) <= Len(base_urls)
          /\ SubSeq(base_urls, 1, Len(prev_base)) = prev_base)
    /\ [][/\ Len(base_urls) <= Len(base_urls')
          /\ SubSeq(base_urls', 1, Len(base_urls)) = base_urls
          /\ short_urls' = short_urls]_vars

\* C11 witness: a pass over a store of two endpoints has ended with a third
\* after them.
C11_Witness ==
    /\ up_pc = "idle" /\ passes >= 1
    /\ Len(prev_base) = 2 /\ Len(base_urls) = 3
    /\ short_urls # <<>>

\* C12: in one pass save_urls is called at most once, only after the last
\* short link, and exactly when the pass found a new URL; what it is handed
\* holds every new URL of the pass.
C12_OneBatchWrite ==
    /\ [](/\ writes <= 1
          /\ (up_pc = "resolving" => writes = 0)
          /\ (up_pc = "idle" /\ passes >= 1 => (writes = 1 <=> new_urls # <<>>)))
    /\ [][writes' > writes =>
            /\ up_pc = "resolving" /\ up_k > Len(short_urls)
            /\ Len(asked) = Len(short_urls)
            /\ saved' # None
            /\ \A i \in 1..Len(new_urls) :
                  \E j \in 1..Len(saved'.list) : saved'.list[j] = new_urls[i]
            /\ \A j \in 1..Len(base_urls) : saved'.list[j] = base_urls[j]]_vars

\* C12 witness: a pass found two new URLs and saved once.
C12_Witness ==
    /\ up_pc = "idle" /\ passes >= 1
    /\ Len(new_urls) = 2 /\ writes = 1
    /\ saved = PyList(base_urls)

\* C13: at the end of a pass every short link has been handed to the
\* resolver, in stored order, and every URL a link resolved to is in
\* base_urls (normalized), whatever the links before it gave.
C13_FailureDoesNotAbort ==
    /\ (up_pc = "resolving" => asked = SubSeq(short_urls, 1, Len(asked)))
    /\ (up_pc = "idle" /\ passes >= 1 =>
          /\ asked = short_urls
          /\ Len(outcomes) = Len(short_urls)
          /\ \A i \in 1..Len(outcomes) :
                outcomes[i] # None =>
                   RStripSlash(EnsureSearchPhp(outcomes[i].str)) \in NormalizedSet(base_urls))

\* C13 witness: the first short link failed, the second resolved to a new
\* endpoint, which the pass added.
C13_Witness ==
    /\ up_pc = "idle" /\ passes = 1
    /\ Len(outcomes) = 2
    /\ outcomes[1] = None /\ outcomes[2] # None
    /\ new_urls = <<EnsureSearchPhp(outcomes[2].str)>>
    /\ Len(base_urls) = Len(prev_base) + 1

(***************************************************************************)
(* Claims about resolve_short_url (checked under SpecResolve).             *)
(***************************************************************************)
\* history: positions of the GETs in rs_log
Gets == {i \in 1..Len(rs_log) : rs_log[i].ev = "get"}

\* C14: a call makes at most 3 GETs; it returns None only after exactly 3,
\* with one 2-second sleep between consecutive GETs and none after the
\* last; the call always ends, with a return.
C14_ThreeAttempts ==
    /\ [](/\ Cardinality(Gets) <= 3
          /\ \A i \in 1..Len(rs_log) :
                IF i % 2 = 1 THEN rs_log[i].ev = "get"
                ELSE rs_log[i].ev = "sleep" /\ rs_log[i].secs = 2
          /\ rs_pc \in {"idle", "get", "sleep", "done"}
          /\ (rs_pc = "done" =>
                /\ rs_log # <<>> /\ rs_log[Len(rs_log)].ev = "get"
                /\ (rs_ret = None => Cardinality(Gets) = 3 /\ Len(rs_log) = 5)))
    /\ <>(rs_pc = "done")

\* C14 witness: three attempts failed in three ways and the call returned None.
C14_Witness ==
    /\ rs_pc = "done" /\ rs_ret = None
    /\ Len(rs_log) = 5
    /\ rs_log[1].resp.exc
    /\ rs_log[3].resp.status = 500
    /\ rs_log[5].resp.status = 302 /\ rs_log[5].resp.location = None

\* the last GET of the call was answered 200
Answered200 ==
    /\ rs_pc = "done" /\ rs_log # <<>>
    /\ ~rs_log[Len(rs_log)].resp.exc
    /\ rs_log[Len(rs_log)].resp.status = 200

\* C15 as stated: after a 200 the call returns its argument unchanged, for
\* every argument.
C15_Returns200Input == Answered200 => rs_ret = PyStr(rs_input)

\* C15, amended: after a 200 the call returns the URL it requested: the
\* argument if that begins with "http", else "http://" followed by it.
C15_Returns200Requested ==
    Answered200 =>
        /\ Head(rs_input) \in {"http://", "https://", "httpx.cc"} => rs_ret = PyStr(rs_input)
        /\ Head(rs_input) \notin {"http://", "https://", "httpx.cc"} =>
              rs_ret = PyStr(<<"http://">> \o rs_input)

\* C15 witness: a bare host name answered 200.
C15_Witness ==
    /\ Answered200
    /\ rs_input = <<"A80.CC">>
    /\ rs_ret = PyStr(<<"http://", "A80.CC">>)

\* C16 as stated: a GET answered with a 3xx status ends the call, which
\* returns the Location header of that answer.
C16_Returns3xxLocation ==
    \A i \in Gets :
        (~rs_log[i].resp.exc /\ rs_log[i].resp.status \in 300..399) =>
            /\ i = Len(rs_log) /\ rs_pc = "done"
            /\ rs_ret = rs_log[i].resp.location

\* C16, amended: a GET answered 301, 302, 303, 307 or 308 with a non-empty
\* Location header ends the call, which returns that header as it is.
C16_ReturnsRedirectLocation ==
    \A i \in Gets :
        (/\ ~rs_log[i].resp.exc
         /\ rs_log[i].resp.status \in {301, 302, 303, 307, 308}
         /\ rs_log[i].resp.location # None
         /\ rs_log[i].resp.location # PyStr(<<>>)) =>
            /\ i = Len(rs_log) /\ rs_pc = "done"
            /\ rs_ret = rs_log[i].resp.location

\* C16 witness: the second attempt was answered 302 with a Location, which
\* the call returned.
C16_Witness ==
    /\ rs_pc = "done" /\ Len(rs_log) = 3
    /\ rs_log[3].resp.status = 302
    /\ rs_log[3].resp.location = PyStr(<<"https://", "m1.example", Slash>>)
    /\ rs_ret = PyStr(<<"https://", "m1.example", Slash>>)

(***************************************************************************)
(* More claims about search_drama (checked under SpecSearch).              *)
(***************************************************************************)
\* history: the network requests of the call, without the delays
Sent == SelectSeq(netlog, LAMBDA r : r.kind # "sleep")

\* C17: the requests of one call go out one after the other: first the probe
\* of the first endpoint; after a request comes either the probe of the next
\* endpoint or, at the same endpoint, the search after the probe or the
\* detail page of a later anchor after the search or a detail page; every
\* search and detail request comes right after a delay of its own.
C17_Sequential ==
    /\ Sent # <<>> => Sent[1].kind = "probe" /\ IndexOf(Sent[1].url) = 1
    /\ \A n \in 1..(Len(Sent) - 1) :
          LET a == Sent[n]
              b == Sent[n + 1]
          IN \/ b.kind = "probe" /\ IndexOf(b.url) = IndexOf(a.url) + 1
             \/ /\ b.url = a.url
                /\ \/ a.kind = "probe" /\ b.kind = "search"
                   \/ a.kind \in {"search", "detail"} /\ b.kind = "detail" /\ b.pos > a.pos
    /\ \A n \in 1..Len(netlog) :
          /\ netlog[n].kind \in {"search", "detail"} =>
                /\ n > 1
                /\ netlog[n - 1] = [netlog[n] EXCEPT !.kind = "sleep"]
          /\ netlog[n].kind = "sleep" =>
                /\ n < Len(netlog)
                /\ netlog[n + 1].kind \in {"search", "detail"}
    /\ sd_pc = "detail" =>
          \A p \in 1..(sd_j - 1) :
              Qualifies(sd_page[p]) =>
                 \E n \in 1..Len(Sent) :
                    Sent[n] = [kind |-> "detail", url |-> base_urls[sd_i], pos |-> p]

\* C17 witness: the first endpoint's two detail pages were fetched without a
\* link, then the second endpoint was probed.
C17_Witness ==
    /\ Len(Sent) >= 5
    /\ Sent[3].kind = "detail" /\ Sent[3].pos = 1
    /\ Sent[4].kind = "detail" /\ Sent[4].pos = 2
    /\ Sent[5].kind = "probe" /\ IndexOf(Sent[5].url) = 2

(***************************************************************************)
(* More claims about handle_text (checked under SpecCache).                *)
(***************************************************************************)
\* C18: the step that takes in a processed message removes exactly the
\* entries older than the ttl and leaves the others as they are, and what
\* it answers from the cache it answers from what is left.
C18_PurgeFirst ==
    [][nmsg' = nmsg + 1 =>
         /\ DOMAIN search_cache' =
               {k \in DOMAIN search_cache : now - search_cache[k].timestamp <= 300}
         /\ \A k \in DOMAIN search_cache' : search_cache'[k] = search_cache[k]
         /\ (reply'.kind \in {"detail", "range"} => hist'.age \in 0..300)
         /\ (hist'.op = "detail" /\ hist'.numeric /\ hist'.age > 300 =>
                reply'.kind = "nocache")]_vars

\* C18 witness: a detail request found its requester's entry older than the
\* ttl and gone, while a younger entry of another requester stayed.
C18_Witness ==
    /\ hist.op = "detail" /\ hist.numeric /\ hist.age > 300
    /\ reply.kind = "nocache"
    /\ KeyOf(hist.id) \notin DOMAIN search_cache
    /\ DOMAIN search_cache # {}

\* C19: every user-input failure is answered with one corrective reply to
\* the requester and makes no network request: an empty keyword, an index
\* that is not a number, an index out of range, no (or an expired) entry.
C19_CorrectiveReply ==
    /\ (hist.op = "search" /\ ~hist.net) =>
          reply = [kind |-> "nokeyword", to |-> hist.id]
    /\ (hist.op = "detail" /\ ~hist.numeric) =>
          reply = [kind |-> "badindex", to |-> hist.id] /\ ~hist.net
    /\ hist.op = "raised" =>
          reply = [kind |-> "badindex", to |-> hist.id] /\ ~hist.net
    /\ (hist.op = "detail" /\ hist.numeric) =>
          /\ ~hist.net
          /\ reply.to = hist.id
          /\ reply.kind \in {"nocache", "range", "detail"}
          /\ (hist.age < 0 \/ hist.age > 300) => reply.kind = "nocache"

(***************************************************************************)
(* Claims about the startup (checked under SpecStart).                     *)
(***************************************************************************)
\* history: the save of the discovery pass did not reach the file
SaveFailed == writes = 1 /\ file_urls # base_urls

\* C20: when the endpoint file could not be created or read in __init__, or
\* not be saved after discovery, the startup still completes, the store
\* holds the default URLs (and what the pass discovered), and the plugin is
\* enabled as configured.
C20_StartupSurvives ==
    (st_pc = "ready" /\ (load_failure # "none" \/ SaveFailed)) =>
        /\ short_urls = ConfigShortUrls
        /\ base_urls = prev_base \o new_urls
        /\ (load_failure # "none" => prev_base = DefaultBaseUrls)
        /\ enable = cfg_enable

(***************************************************************************)
(* Claims about the search reply and what is cached (under SpecCache).     *)
(***************************************************************************)
\* C21: the reply to a search with n >= 1 results lists the titles
\* of the first min(n, 10) results, numbered from 1 in result order, and ends
\* with the instruction; a detail lookup of a number shown gives the result
\* whose title stands at that number.
C21_NumberedList ==
    (hist.op = "searched" /\ hist.results # <<>>) =>
        LET n == Len(hist.results)
            shown == IF n < 10 THEN n ELSE 10
        IN /\ reply.kind = "list" /\ reply.to = hist.id
           /\ Len(reply.titles) = shown
           /\ reply.hint = Command \o <<"#", Space>>
           /\ \A i \in 1..shown :
                 LET d == DetailReply(search_cache, KeyOf(hist.id), reply.titles[i].no, hist.id)
                 IN /\ reply.titles[i].no = i
                    /\ reply.titles[i].title = hist.results[i].title
                    /\ d.kind = "detail"
                    /\ d.title = reply.titles[i].title
                    /\ d.pan_link = hist.results[i].pan_link

\* C21 witness: a search gave 11 results and the reply lists 10 of them.
C21_Witness ==
    /\ hist.op = "searched"
    /\ Len(hist.results) = 11
    /\ reply.kind = "list" /\ Len(reply.titles) = 10 /\ reply.more = 1

\* C22: the return of a search without results leaves search_cache as it
\* is; and a detail reply gives the keyword and the
\* result of the requester's last search that had results.
C22_EmptySearchKeepsEntry ==
    /\ [](reply.kind = "detail" =>
             /\ latest[reply.to] # None
             /\ reply.keyword = latest[reply.to].keyword
             /\ \E i \in 1..Len(latest[reply.to].results) :
                   /\ reply.title = latest[reply.to].results[i].title
                   /\ reply.pan_link = latest[reply.to].results[i].pan_link)
    /\ [][(Len(pending') < Len(pending) /\ hist'.results = <<>>) =>
             /\ search_cache' = search_cache
             /\ latest' = latest
             /\ reply'.kind = "notfound"]_vars

\* C22 witness: a search of a requester who has an entry came back without
\* results, and the entry is still there.
C22_Witness ==
    /\ hist.op = "searched" /\ hist.results = <<>>
    /\ KeyOf(hist.id) \in DOMAIN search_cache
    /\ search_cache[KeyOf(hist.id)].keyword # hist.keyword

\* C23: every cache entry holds at least one result, and every result in it
\* has a link.
C23_EntriesHaveLinks ==
    \A k \in DOMAIN search_cache :
        /\ search_cache[k].results # <<>>
        /\ \A i \in 1..Len(search_cache[k].results) :
              search_cache[k].results[i].pan_link # None

\* C23 witness: an entry whose first result is the page's second anchor, the
\* first anchor's detail page having given no link.
C23_Witness ==
    \E k \in DOMAIN search_cache :
        /\ Len(search_cache[k].results) = MaxHits
        /\ search_cache[k].results[1].title.pos = 2

\* C24: a detail lookup with a number above max_results, up to the number of
\* results the requester's last search returned, answers with the result at
\* that number.
C24_HiddenResultsKept ==
    (/\ hist.op = "detail" /\ hist.numeric
     /\ KeyOf(hist.id) \in DOMAIN search_cache
     /\ hist.index > 10
     /\ hist.index <= Len(latest[hist.id].results)) =>
        /\ reply.kind = "detail"
        /\ reply.title = latest[hist.id].results[hist.index].title
        /\ reply.pan_link = latest[hist.id].results[hist.index].pan_link
        /\ reply.keyword = latest[hist.id].keyword

\* C24 witness: number 11 was looked up and answered.
C24_Witness ==
    /\ hist.op = "detail" /\ hist.numeric /\ hist.index = 11
    /\ reply.kind = "detail"
    /\ reply.title.pos = 12

(***************************************************************************)
(* Claims about send_comment (checked under SpecComment).                  *)
(***************************************************************************)
\* C25: once the POST URL of a send_comment call is built, its domain is the
\* domain the comment key was fetched from, and it is not empty.
C25_SameDomain ==
    (sc_pc = "post" \/ (sc_pc = "done" /\ sc_ret = PyStr("success"))) =>
        /\ post_domain = key_domain
        /\ post_domain # None
        /\ post_domain.str # <<>>

====
